---- MODULE Spec2Model ----
(***************************************************************************)
(* GuideScaff: guided scaffolding of contigs.                              *)
(*   makeContigLinks.py : tilings -> distance matrix -> consensus matrix   *)
(*                        -> paths of contig ends -> scaffold lines        *)
(*   makeScaffolds.py   : scaffold lines + contig sequences -> sequences   *)
(*   countBreakPoints.py: getOverlap / getDistance (copies of the          *)
(*                        overlap / distance primitive)                    *)
(* Python strings that the code slices or compares character-wise are      *)
(* sequences of one-character strings.  A dict is a function, a list a     *)
(* sequence, a set a set.  Python's None is the record None.               *)
(***************************************************************************)
EXTENDS Integers, Sequences, FiniteSets, TLC

VARIABLES
    \* makeContigLinks.py
    tilingsList,    \* list of tilings; a tiling is a list of clusters
    w,              \* a.windowSize
    threshold,      \* a.threshold
    M,              \* buildMatrix: ContigEntry -> ContigEntry -> list of distances
    k,              \* buildMatrix: number of window pairs already processed
    MC,             \* consensus matrix: ContigEntry -> ContigEntry -> integer
    paths,          \* buildPaths: paths
    seenContigs,    \* buildPaths: seenContigs (the dropList of expandPath)
    unseenContigs,  \* buildPaths: unseenContigs
    path,           \* expandPath: path
    scaffolds,      \* makeScaffolds: scaffolds
    pc,             \* position in the makeContigLinks pipeline
    \* overlap / distance
    dq,             \* the two ranges, and the results computed from them
    \* makeScaffolds.py
    d,              \* d[cluster]: list of ContigLinksEntry
    contigs,        \* contigs: CONTIGID -> sequence
    i,              \* makeScaffolds: i
    scaffold,       \* makeScaffolds: scaffold (list of pieces)
    scaffoldSeq,    \* scaffolds[cluster]
    mpc             \* position in makeScaffolds.py's loop

linkVars  == <<tilingsList, w, threshold, M, k, MC, paths, seenContigs,
               unseenContigs, path, scaffolds, pc>>
mergeVars == <<d, contigs, i, scaffold, scaffoldSeq, mpc>>
vars      == <<linkVars, dq, mergeVars>>

(***************************************************************************)
(* Bounds of the model.                                                    *)
(***************************************************************************)
MaxCoord == 3        \* range coordinates are drawn from -MaxCoord..MaxCoord

MaxClusterLen == 4   \* records in a cluster of a tiling

MaxW == 3            \* window sizes are 2..MaxW

MaxThreshold == 2    \* thresholds are 1..MaxThreshold

MaxEdges == 3        \* edges of a consensus graph given to buildPaths directly

MaxDist == 2         \* consensus distances of such a graph are 1..MaxDist

MaxPathLen == 3      \* nodes of a path given to makeScaffolds directly

MaxLines == 3        \* contig-link lines of a cluster

MaxSeqLen == 2       \* contig sequences of the merge loop have 1..MaxSeqLen symbols

MaxTail == 4         \* free trailing symbols of a 10-symbol contig sequence

MaxSeqLenB == 4      \* symbols of the sequence merged onto a 10-symbol one

(***************************************************************************)
(* Generic helpers.                                                        *)
(***************************************************************************)
None == [isNone |-> TRUE, v |-> 0]

Some(x) == [isNone |-> FALSE, v |-> x]

\* Python truthiness of an optional integer: None and 0 are false.
Truthy(o) == (~o.isNone) /\ o.v # 0

Min2(x, y) == IF x <= y THEN x ELSE y

Max2(x, y) == IF x >= y THEN x ELSE y

Abs(x) == IF x >= 0 THEN x ELSE -x

Last(s) == s[Len(s)]

(***************************************************************************)
(* makeContigLinks.py: overlap, distance                                   *)
(***************************************************************************)
overlap(a, b, c, e) ==
    LET r == IF a = c /\ b = e THEN 0 ELSE Min2(b, e) - Max2(a, c)
    IN  IF r >= 0 THEN Some(r) ELSE None

distanceFirstOnly(a, b, c, e) ==
    LET o == overlap(a, b, c, e)
    IN  IF Truthy(o) THEN -o.v
        ELSE Abs(Max2(a, b) - Min2(c, e))

distance(a, b, c, e) ==
    LET o == overlap(a, b, c, e)
    IN  IF Truthy(o) THEN -o.v
        ELSE Min2(Abs(Max2(a, b) - Min2(c, e)),
                  Abs(Max2(c, e) - Min2(a, b)))

(***************************************************************************)
(* countBreakPoints.py: getOverlap, getDistance                            *)
(***************************************************************************)
getOverlap(a, b, c, e) ==
    LET r == IF a = c /\ b = e THEN 0 ELSE Min2(b, e) - Max2(a, c)
    IN  IF r >= 0 THEN Some(r) ELSE None

getDistance(a, b, c, e) ==
    LET o == getOverlap(a, b, c, e)
    IN  IF Truthy(o) THEN -o.v
        ELSE Min2(Abs(Max2(a, b) - Min2(c, e)),
                  Abs(Max2(c, e) - Min2(a, b)))

(***************************************************************************)
(* makeContigLinks.py: contig ends                                         *)
(***************************************************************************)
LFT == <<"L", "F", "T">>

RGT == <<"R", "G", "T">>

ALL == <<"A", "L", "L">>

ContigEntry(o, c, e) == [ORIENTATION |-> o, CONTIGID |-> c, END |-> e]

ScaffoldLine(g, o, c) == [GAP |-> g, ORIENTATION |-> o, CONTIG |-> c]

oppositeContigEntry(contigEntry) ==
    IF contigEntry.END = LFT
    THEN ContigEntry(contigEntry.ORIENTATION, contigEntry.CONTIGID, RGT)
    ELSE IF contigEntry.END = RGT
    THEN ContigEntry(contigEntry.ORIENTATION, contigEntry.CONTIGID, LFT)
    ELSE ContigEntry(contigEntry.ORIENTATION, contigEntry.CONTIGID, ALL)

oppositeOrientationKeep(contigEntry) == contigEntry

oppositeOrientation(contigEntry) ==
    IF contigEntry.ORIENTATION = "+"
    THEN ContigEntry("-", contigEntry.CONTIGID, contigEntry.END)
    ELSE ContigEntry("+", contigEntry.CONTIGID, contigEntry.END)

(***************************************************************************)
(* Dicts.                                                                  *)
(***************************************************************************)
EmptyDict == [x \in {} |-> 0]

\* m[key] = val
Put(m, key, val) == [x \in (DOMAIN m) \cup {key} |-> IF x = key THEN val ELSE m[x]]

\* m.setdefault(key, dflt), as the dict it leaves
SetDefault(m, key, dflt) == IF key \in DOMAIN m THEN m ELSE Put(m, key, dflt)

\* M.setdefault(e1, {}); M[e1].setdefault(e2, []); M[e1][e2].append(dist)
AppendDistance(mat, e1, e2, dist) ==
    LET m1  == SetDefault(mat, e1, EmptyDict)
        row == SetDefault(m1[e1], e2, <<>>)
    IN  Put(m1, e1, Put(row, e2, Append(row[e2], dist)))

(***************************************************************************)
(* makeContigLinks.py: buildMatrix                                         *)
(* A TilingEntry keeps the fields buildMatrix reads: START, END (already   *)
(* integers), ORIENTATION and CONTIGID (a string: a sequence of            *)
(* characters, the first three the end label, the fourth a separator).     *)
(***************************************************************************)
TilingEntry(s, e, o, c) == [START |-> s, END |-> e, ORIENTATION |-> o, CONTIGID |-> c]

\* c1 = e1.CONTIGID[4:]
BareId(entry) == SubSeq(entry.CONTIGID, 5, Len(entry.CONTIGID))

\* paired1 = e1.CONTIGID[0:3]
EndLabel(entry) == SubSeq(entry.CONTIGID, 1, Min2(3, Len(entry.CONTIGID)))

\* ce1 = ContigEntry(e1.ORIENTATION, c1, paired1)
EntryOf(entry) == ContigEntry(entry.ORIENTATION, BareId(entry), EndLabel(entry))

\* xrange(len(chromosome)-w), as 1-based indices
FirstIndices(chromosome, win) == 1 .. (Len(chromosome) - win)

\* islice(chromosome, i+1, i+w), as 1-based indices
SecondIndices(chromosome, win, ii) == (ii + 1) .. Min2(ii + win - 1, Len(chromosome))

\* the (i, j) pairs of one chromosome from index ii on, in loop order
RECURSIVE PairsFrom(_, _, _)
PairsFrom(chromosome, win, ii) ==
    IF ii \notin FirstIndices(chromosome, win) THEN <<>>
    ELSE LET js == SecondIndices(chromosome, win, ii)
         IN  [n \in 1 .. Cardinality(js) |-> <<chromosome[ii], chromosome[ii + n]>>]
             \o PairsFrom(chromosome, win, ii + 1)

\* for chromosome in tilings
RECURSIVE PairsOfTiling(_, _, _)
PairsOfTiling(tilings, win, cc) ==
    IF cc > Len(tilings) THEN <<>>
    ELSE PairsFrom(tilings[cc], win, 1) \o PairsOfTiling(tilings, win, cc + 1)

\* for tilings in tilingsList: the (e1, e2) pairs in the order the loops visit them
RECURSIVE PairsOfList(_, _, _)
PairsOfList(tl, win, tt) ==
    IF tt > Len(tl) THEN <<>>
    ELSE PairsOfTiling(tl[tt], win, 1) \o PairsOfList(tl, win, tt + 1)

WindowPairs(tl, win) == PairsOfList(tl, win, 1)

\* the body of the innermost loop
InsertPair(mat, e1, e2) ==
    LET ce1    == EntryOf(e1)
        ce2    == EntryOf(e2)
        ce1opp == oppositeOrientation(ce1)
        ce2opp == oppositeOrientation(ce2)
        dist   == distance(e1.START, e1.END, e2.START, e2.END)
    IN  AppendDistance(AppendDistance(mat, ce1, ce2, dist), ce2opp, ce1opp, dist)

(***************************************************************************)
(* makeContigLinks.py: makeConsensusMatrix with distancesFunc = median     *)
(***************************************************************************)
\* insertion into a sorted list
RECURSIVE InsertSorted(_, _)
InsertSorted(s, x) ==
    IF s = <<>> THEN <<x>>
    ELSE IF x <= Head(s) THEN <<x>> \o s
    ELSE <<Head(s)>> \o InsertSorted(Tail(s), x)

RECURSIVE Sorted(_)
Sorted(s) == IF s = <<>> THEN <<>> ELSE InsertSorted(Sorted(Tail(s)), Head(s))

\* int(x / 2.0): truncation towards zero
TruncHalf(x) == IF x >= 0 THEN x \div 2 ELSE -((-x) \div 2)

\* int(numpy.median(l)) for a non-empty list of integers
IntMedian(l) ==
    LET s == Sorted(l)
        n == Len(s)
    IN  IF n % 2 = 1 THEN s[(n + 1) \div 2]
        ELSE TruncHalf(s[n \div 2] + s[n \div 2 + 1])

\* the m2 kept for m1
Kept(mat, thr, m1) == {m2 \in DOMAIN mat[m1] : ~(Len(mat[m1][m2]) < thr)}

makeConsensusMatrixKeepAll(mat, thr) ==
    [m1 \in DOMAIN mat |-> [m2 \in DOMAIN mat[m1] |-> IntMedian(mat[m1][m2])]]

makeConsensusMatrix(mat, thr) ==
    [m1 \in {x \in DOMAIN mat : Kept(mat, thr, x) # {}} |->
        [m2 \in Kept(mat, thr, m1) |-> IntMedian(mat[m1][m2])]]

(***************************************************************************)
(* makeContigLinks.py: bestNextMatch, expandPath, buildPaths               *)
(***************************************************************************)
CandidatesUnfiltered(mat, dropList, n) == DOMAIN mat[n]

\* filter(lambda (entry,dist): entry.CONTIGID not in dropList, M[n].items())
Candidates(mat, dropList, n) == {t \in DOMAIN mat[n] : t.CONTIGID \notin dropList}

\* the unvisited targets of any node's edges
BestNextMatchesAnyRow(mat, dropList, n) ==
    {t \in UNION {DOMAIN mat[x] : x \in DOMAIN mat} : t.CONTIGID \notin dropList}

\* sorted(candidates, key=itemgetter(1))[0][0]: the sort is stable, so among the
\* candidates of least distance it is the first in the dict's iteration order,
\* which is any of them.
BestNextMatches(mat, dropList, n) ==
    {t \in Candidates(mat, dropList, n) :
        \A u \in Candidates(mat, dropList, n) : mat[n][t] <= mat[n][u]}

\* "oppositeEnd in dropList": dropList holds CONTIGID strings and oppositeEnd is
\* a ContigEntry tuple, which equals no string.
EntryInDropList(entry, dropList) == FALSE

\* "not M.has_key(oppositeEnd) or oppositeEnd in dropList"
FlipBlocked(mat, dropList, oppositeEnd) ==
    (oppositeEnd \notin DOMAIN mat) \/ EntryInDropList(oppositeEnd, dropList)

\* the CONTIGIDs of a path
PathIds(p) == {p[n].CONTIGID : n \in 1 .. Len(p)}

\* the entries of a path
PathEntries(p) == {p[n] : n \in 1 .. Len(p)}

(***************************************************************************)
(* makeContigLinks.py: makeScaffolds                                       *)
(***************************************************************************)
\* the pairs of pairwise(path) that are not skipped
LinePairs(p) == {n \in 1 .. Len(p) - 1 : p[n].CONTIGID # p[n + 1].CONTIGID}

\* M[ce1][ce2] raises KeyError for no pair of the path
LookupsDefined(mat, p) ==
    \A n \in LinePairs(p) : p[n] \in DOMAIN mat /\ p[n + 1] \in DOMAIN mat[p[n]]

RECURSIVE WalkLines(_, _, _)
WalkLines(mat, p, n) ==
    IF n >= Len(p) THEN <<>>
    ELSE (IF p[n].CONTIGID = p[n + 1].CONTIGID THEN <<>>
          ELSE <<ScaffoldLine(mat[p[n]][p[n + 1]], p[n].ORIENTATION, p[n].CONTIGID)>>)
         \o WalkLines(mat, p, n + 1)

ScaffoldOfNoLast(mat, p) == WalkLines(mat, p, 1)

\* the scaffold of one path
ScaffoldOf(mat, p) ==
    Append(WalkLines(mat, p, 1), ScaffoldLine(0, Last(p).ORIENTATION, Last(p).CONTIGID))

makeScaffolds(mat, ps) == [n \in 1 .. Len(ps) |-> ScaffoldOf(mat, ps[n])]

(***************************************************************************)
(* Inputs of the makeContigLinks pipeline.                                 *)
(***************************************************************************)
C1 == <<"C", "1">>

C2 == <<"C", "2">>

C3 == <<"C", "3">>

\* 'ALL_%s' % fastaKey, 'LFT_%s', 'RGT_%s' (extractContigEnds.py)
Labelled(label, c) == label \o <<"_">> \o c

RecordPool ==
    { TilingEntry(0, 100, "+", Labelled(ALL, C1)),
      TilingEntry(150, 250, "+", Labelled(ALL, C2)),
      TilingEntry(240, 300, "-", Labelled(RGT, C3)),
      TilingEntry(300, 360, "-", Labelled(LFT, C3)) }

\* clusters: 2..MaxClusterLen records of the pool, none twice
Clusters ==
    UNION { {c \in [1 .. n -> RecordPool] :
                \A x, y \in 1 .. n : x # y => c[x] # c[y]} : n \in 2 .. MaxClusterLen }

\* two guiding tilings of one cluster each
TilingsLists == { << <<c1>>, <<c2>> >> : c1 \in Clusters, c2 \in Clusters }

(***************************************************************************)
(* Consensus graphs given to buildPaths directly.                          *)
(***************************************************************************)
NodeC1L == ContigEntry("+", C1, LFT)

NodeC1R == ContigEntry("+", C1, RGT)

NodeC2L == ContigEntry("+", C2, LFT)

NodeC2R == ContigEntry("+", C2, RGT)

NodeC2Lm == ContigEntry("-", C2, LFT)

NodeC3 == ContigEntry("+", C3, ALL)

NodePool == {NodeC1L, NodeC1R, NodeC2L, NodeC2R, NodeC2Lm, NodeC3}

EdgePool ==
    { <<NodeC1L, NodeC1R>>, <<NodeC1L, NodeC3>>, <<NodeC1R, NodeC2L>>,
      <<NodeC1R, NodeC3>>, <<NodeC2L, NodeC2R>>, <<NodeC2L, NodeC1R>>,
      <<NodeC2R, NodeC3>>, <<NodeC2R, NodeC1L>>, <<NodeC3, NodeC1L>>,
      <<NodeC3, NodeC2Lm>>, <<NodeC2Lm, NodeC1L>>, <<NodeC3, NodeC2L>> }

\* the edges of the graphs given to makeScaffolds with a path of any shape
ChainPool ==
    { <<NodeC1R, NodeC2L>>, <<NodeC1R, NodeC3>>, <<NodeC2R, NodeC3>>, <<NodeC3, NodeC1L>> }

GraphOf(es, df) ==
    [m1 \in {e[1] : e \in es} |->
        [m2 \in {e[2] : e \in {x \in es : x[1] = m1}} |-> df[<<m1, m2>>]]]

GraphsOver(pool) ==
    UNION { {GraphOf(es, df) : df \in [es -> 1 .. MaxDist]} :
            es \in {x \in SUBSET pool : Cardinality(x) <= MaxEdges} }

Graphs == GraphsOver(EdgePool)

\* the paths given to makeScaffolds directly: 1..MaxPathLen nodes, in any order
PathPool == UNION { [1 .. n -> NodePool] : n \in 1 .. MaxPathLen }

(***************************************************************************)
(* Actions of makeContigLinks.py                                           *)
(***************************************************************************)
IdleLink ==
    /\ tilingsList = <<>> /\ w = 2 /\ threshold = 1 /\ M = EmptyDict /\ k = 0
    /\ MC = EmptyDict /\ paths = <<>> /\ seenContigs = {} /\ unseenContigs = {}
    /\ path = <<>> /\ scaffolds = <<>> /\ pc = "idle"

IdleDist ==
    dq = [a |-> 0, b |-> 0, c |-> 0, e |-> 0, o |-> None, dist |-> 0, gdist |-> 0, done |-> FALSE]

IdleMerge ==
    /\ d = <<>> /\ contigs = EmptyDict /\ i = 0 /\ scaffold = <<>>
    /\ scaffoldSeq = <<>> /\ mpc = "idle"

\* one pass of the innermost loop of buildMatrix
BuildStep ==
    /\ pc = "build"
    /\ k < Len(WindowPairs(tilingsList, w))
    /\ LET pr == WindowPairs(tilingsList, w)[k + 1]
       IN  M' = InsertPair(M, pr[1], pr[2])
    /\ k' = k + 1
    /\ UNCHANGED <<tilingsList, w, threshold, MC, paths, seenContigs,
                   unseenContigs, path, scaffolds, pc, dq, mergeVars>>

\* return M
BuildReturn ==
    /\ pc = "build"
    /\ k = Len(WindowPairs(tilingsList, w))
    /\ pc' = "consensus"
    /\ UNCHANGED <<tilingsList, w, threshold, M, k, MC, paths, seenContigs,
                   unseenContigs, path, scaffolds, dq, mergeVars>>

\* MC = makeConsensusMatrix(M, a.threshold, median), and the start of buildPaths(MC)
MakeConsensus ==
    /\ pc = "consensus"
    /\ MC' = makeConsensusMatrix(M, threshold)
    /\ paths' = <<>>
    /\ seenContigs' = {}
    /\ unseenContigs' = DOMAIN MC'
    /\ pc' = "seed"
    /\ UNCHANGED <<tilingsList, w, threshold, M, k, path, scaffolds, dq, mergeVars>>

\* startNode = unseenContigs.pop(); its CONTIGID is in seenContigs: continue
PopSeen ==
    /\ pc = "seed"
    /\ \E startNode \in unseenContigs :
        /\ startNode.CONTIGID \in seenContigs
        /\ unseenContigs' = unseenContigs \ {startNode}
    /\ UNCHANGED <<tilingsList, w, threshold, M, k, MC, paths, seenContigs,
                   path, scaffolds, pc, dq, mergeVars>>

SeedAllowedAlways(startNode) == TRUE

\* "if startNode.CONTIGID in seenContigs: continue" does not apply
SeedAllowed(startNode) == startNode.CONTIGID \notin seenContigs

\* startNode = unseenContigs.pop(); seenContigs.add(...); path = [initial]
PopSeed ==
    /\ pc = "seed"
    /\ \E startNode \in unseenContigs :
        /\ SeedAllowed(startNode)
        /\ unseenContigs' = unseenContigs \ {startNode}
        /\ seenContigs' = seenContigs \cup {startNode.CONTIGID}
        /\ path' = <<startNode>>
    /\ pc' = "flip"
    /\ UNCHANGED <<tilingsList, w, threshold, M, k, MC, paths, scaffolds, dq, mergeVars>>

\* expandPath: path.append(oppositeEnd); dropList.add(oppositeEnd.CONTIGID)
Flip ==
    /\ pc = "flip"
    /\ LET oppositeEnd == oppositeContigEntry(Last(path))
       IN  /\ ~FlipBlocked(MC, seenContigs, oppositeEnd)
           /\ path' = Append(path, oppositeEnd)
           /\ seenContigs' = seenContigs \cup {oppositeEnd.CONTIGID}
    /\ pc' = "bridge"
    /\ UNCHANGED <<tilingsList, w, threshold, M, k, MC, paths, unseenContigs,
                   scaffolds, dq, mergeVars>>

\* expandPath returns path; buildPaths keeps it when it has two entries or more
ReturnPath ==
    /\ IF Len(path) > 1
       THEN /\ paths' = Append(paths, path)
            /\ seenContigs' = seenContigs \cup PathIds(path)
            /\ unseenContigs' = unseenContigs \ PathEntries(path)
       ELSE UNCHANGED <<paths, seenContigs, unseenContigs>>
    /\ pc' = "seed"
    /\ UNCHANGED <<tilingsList, w, threshold, M, k, MC, path, scaffolds, dq, mergeVars>>

\* expandPath: the opposite end is no key of M: break
FlipBreak ==
    /\ pc = "flip"
    /\ FlipBlocked(MC, seenContigs, oppositeContigEntry(Last(path)))
    /\ ReturnPath

\* expandPath: n = bestNextMatch(M, dropList, path[-1]); path.append(n); continue
Bridge ==
    /\ pc = "bridge"
    /\ \E n \in BestNextMatches(MC, seenContigs, Last(path)) :
        path' = Append(path, n)
    /\ pc' = "flip"
    /\ UNCHANGED <<tilingsList, w, threshold, M, k, MC, paths, seenContigs,
                   unseenContigs, scaffolds, dq, mergeVars>>

\* expandPath: bestNextMatch returns None: break
BridgeBreak ==
    /\ pc = "bridge"
    /\ Candidates(MC, seenContigs, Last(path)) = {}
    /\ ReturnPath

\* buildPaths: unseenContigs is empty: return paths
BuildPathsReturn ==
    /\ pc = "seed"
    /\ unseenContigs = {}
    /\ pc' = "scaffolds"
    /\ UNCHANGED <<tilingsList, w, threshold, M, k, MC, paths, seenContigs,
                   unseenContigs, path, scaffolds, dq, mergeVars>>

\* scaffolds = makeScaffolds(MC, paths)
MakeScaffoldsStep ==
    /\ pc = "scaffolds"
    /\ \A n \in 1 .. Len(paths) : LookupsDefined(MC, paths[n])
    /\ scaffolds' = makeScaffolds(MC, paths)
    /\ pc' = "done"
    /\ UNCHANGED <<tilingsList, w, threshold, M, k, MC, paths, seenContigs,
                   unseenContigs, path, dq, mergeVars>>

\* makeScaffolds: M[ce1][ce2] raises KeyError
MakeScaffoldsKeyError ==
    /\ pc = "scaffolds"
    /\ \E n \in 1 .. Len(paths) : ~LookupsDefined(MC, paths[n])
    /\ pc' = "KeyError"
    /\ UNCHANGED <<tilingsList, w, threshold, M, k, MC, paths, seenContigs,
                   unseenContigs, path, scaffolds, dq, mergeVars>>

(***************************************************************************)
(* Spec: the pipeline of makeContigLinks.py's main                         *)
(***************************************************************************)
Init ==
    /\ tilingsList \in TilingsLists
    /\ w \in 2 .. MaxW
    /\ threshold \in 1 .. MaxThreshold
    /\ M = EmptyDict /\ k = 0
    /\ MC = EmptyDict /\ paths = <<>> /\ seenContigs = {} /\ unseenContigs = {}
    /\ path = <<>> /\ scaffolds = <<>>
    /\ pc = "build"
    /\ IdleDist /\ IdleMerge

Next ==
    \/ BuildStep
    \/ BuildReturn
    \/ MakeConsensus
    \/ PopSeen
    \/ PopSeed
    \/ Flip
    \/ FlipBreak
    \/ Bridge
    \/ BridgeBreak
    \/ BuildPathsReturn
    \/ MakeScaffoldsStep

Spec == Init /\ [][Next]_vars

(***************************************************************************)
(* SpecPaths: buildPaths and makeScaffolds on any consensus graph          *)
(***************************************************************************)
InitPaths ==
    /\ tilingsList = <<>> /\ w = 2 /\ threshold = 1 /\ M = EmptyDict /\ k = 0
    /\ MC \in Graphs
    /\ paths = <<>> /\ seenContigs = {} /\ unseenContigs = DOMAIN MC
    /\ path = <<>> /\ scaffolds = <<>>
    /\ pc = "seed"
    /\ IdleDist /\ IdleMerge

NextPaths ==
    \/ PopSeen
    \/ PopSeed
    \/ Flip
    \/ FlipBreak
    \/ Bridge
    \/ BridgeBreak
    \/ BuildPathsReturn
    \/ MakeScaffoldsStep

SpecPaths == InitPaths /\ [][NextPaths]_vars

(***************************************************************************)
(* SpecAssemble: makeScaffolds on a consensus graph and one path of any    *)
(* shape                                                                   *)
(***************************************************************************)
InitAssemble ==
    /\ tilingsList = <<>> /\ w = 2 /\ threshold = 1 /\ M = EmptyDict /\ k = 0
    /\ MC \in GraphsOver(ChainPool)
    /\ \E p \in PathPool : paths = <<p>>
    /\ seenContigs = {} /\ unseenContigs = {}
    /\ path = <<>> /\ scaffolds = <<>>
    /\ pc = "scaffolds"
    /\ IdleDist /\ IdleMerge

NextAssemble ==
    \/ MakeScaffoldsStep
    \/ MakeScaffoldsKeyError

SpecAssemble == InitAssemble /\ [][NextAssemble]_vars

(***************************************************************************)
(* SpecDist: overlap and distance on any two ranges                        *)
(***************************************************************************)
Coords == (-MaxCoord) .. MaxCoord

InitDist ==
    /\ \E a, b, c, e \in Coords :
        dq = [a |-> a, b |-> b, c |-> c, e |-> e,
              o |-> None, dist |-> 0, gdist |-> 0, done |-> FALSE]
    /\ IdleLink /\ IdleMerge

\* o = overlap(a,b,c,d); distance(a,b,c,d); getDistance(a,b,c,d)
ComputeDistance ==
    /\ ~dq.done
    /\ dq' = [dq EXCEPT !.o = overlap(dq.a, dq.b, dq.c, dq.e),
                        !.dist = distance(dq.a, dq.b, dq.c, dq.e),
                        !.gdist = getDistance(dq.a, dq.b, dq.c, dq.e),
                        !.done = TRUE]
    /\ UNCHANGED <<linkVars, mergeVars>>

NextDist == ComputeDistance

SpecDist == InitDist /\ [][NextDist]_vars

(***************************************************************************)
(* Claims about makeContigLinks.py                                         *)
(***************************************************************************)
BuildPathsReturned == pc \in {"scaffolds", "done"}

\* C1 (SpecPaths): after buildPaths returns, every returned path has two
\* entries or more and no bare contig id occurs in two different returned
\* paths, whatever the consensus graph and the order the seeds are popped in.
C1_PathPartition ==
    BuildPathsReturned =>
        /\ \A x \in 1 .. Len(paths) : Len(paths[x]) >= 2
        /\ \A x, y \in 1 .. Len(paths) :
            x # y => PathIds(paths[x]) \cap PathIds(paths[y]) = {}

\* buildPaths has returned two paths
C1_Witness == BuildPathsReturned /\ Len(paths) >= 2

ScenarioCluster ==
    << TilingEntry(0, 100, "+", Labelled(ALL, C1)),
       TilingEntry(150, 250, "+", Labelled(ALL, C2)) >>

ScenarioC1 == ContigEntry("+", C1, ALL)

ScenarioC2 == ContigEntry("+", C2, ALL)

\* C2 (Spec): two tilings that each place C1 (+, 0..100) right before
\* C2 (+, 150..250), window size 2, threshold 1: the consensus graph has the
\* edge C1 -> C2 of distance 50, a path orders C1 before C2, and the scaffold
\* lines are (50, +, C1) then (0, +, C2).
C2_EndToEnd ==
    ( /\ pc = "done"
      /\ tilingsList = << <<ScenarioCluster>>, <<ScenarioCluster>> >>
      /\ w = 2
      /\ threshold = 1 ) =>
        /\ ScenarioC1 \in DOMAIN MC
        /\ ScenarioC2 \in DOMAIN MC[ScenarioC1]
        /\ MC[ScenarioC1][ScenarioC2] = 50
        /\ \E x \in 1 .. Len(paths) : \E m, n \in 1 .. Len(paths[x]) :
            m < n /\ paths[x][m] = ScenarioC1 /\ paths[x][n] = ScenarioC2
        /\ \E x \in 1 .. Len(scaffolds) :
            scaffolds[x] = << ScaffoldLine(50, "+", C1), ScaffoldLine(0, "+", C2) >>

\* the edge ce1 -> ce2 holds the observation dist
Observed(ce1, ce2, dist) ==
    /\ ce1 \in DOMAIN M
    /\ ce2 \in DOMAIN M[ce1]
    /\ \E n \in 1 .. Len(M[ce1][ce2]) : M[ce1][ce2][n] = dist

\* C3 (Spec): once buildMatrix has returned, for every cluster of length L
\* and every pair (x, y) of its records with x < y <= min(x + w - 1, L)
\* (1-based), x being any record of the cluster, the matrix holds the
\* distance observation of the pair.
C3_WindowPairing ==
    pc # "build" =>
        \A t \in 1 .. Len(tilingsList) : \A c \in 1 .. Len(tilingsList[t]) :
            LET ch == tilingsList[t][c]
            IN  \A x \in 1 .. Len(ch) :
                    \A y \in (x + 1) .. Min2(x + w - 1, Len(ch)) :
                        Observed(EntryOf(ch[x]), EntryOf(ch[y]),
                                 distance(ch[x].START, ch[x].END, ch[y].START, ch[y].END))

\* LEFT <-> RIGHT and + <-> -
FlipOrientationAndEnd(ce) == oppositeOrientation(oppositeContigEntry(ce))

C5_ConsensusFiltering ==
    pc \notin {"build", "consensus"} =>
        /\ \A m1 \in DOMAIN M : \A m2 \in DOMAIN M[m1] :
            IF Len(M[m1][m2]) < threshold
            THEN ~(m1 \in DOMAIN MC /\ m2 \in DOMAIN MC[m1])
            ELSE m1 \in DOMAIN MC /\ m2 \in DOMAIN MC[m1] /\ MC[m1][m2] \in Int
        /\ \A m1 \in DOMAIN MC :
            /\ m1 \in DOMAIN M
            /\ \E m2 \in DOMAIN M[m1] : Len(M[m1][m2]) >= threshold

\* makeConsensusMatrix has dropped an edge, kept another, and dropped a node
C5_Witness ==
    /\ pc = "seed"
    /\ \E m1 \in DOMAIN M : \E m2 \in DOMAIN M[m1] : Len(M[m1][m2]) < threshold
    /\ \E m1 \in DOMAIN M : \E m2 \in DOMAIN M[m1] : Len(M[m1][m2]) >= threshold
    /\ \E m1 \in DOMAIN M : m1 \notin DOMAIN MC

(***************************************************************************)
(* Claims about overlap and distance                                       *)
(***************************************************************************)
\* C6 (SpecDist): distance(a,b,c,d) = distance(c,d,a,b), and the same for
\* getDistance, for all ranges.
C6_DistanceSymmetric ==
    dq.done =>
        /\ dq.dist = distance(dq.c, dq.e, dq.a, dq.b)
        /\ dq.gdist = getDistance(dq.c, dq.e, dq.a, dq.b)

\* the distance of two different ranges that do not overlap has been computed
C6_Witness ==
    /\ dq.done
    /\ dq.o.isNone
    /\ dq.a < dq.b /\ dq.b < dq.c /\ dq.c < dq.e
    /\ dq.dist = dq.c - dq.b

\* C7 (SpecDist): if overlap(a,b,c,d) returns a value v >= 0 (0 included),
\* then distance(a,b,c,d) = -v.
C7_DistanceNegatesOverlap ==
    (dq.done /\ ~dq.o.isNone) => dq.dist = -dq.o.v

(***************************************************************************)
(* Claims about makeScaffolds of makeContigLinks.py                        *)
(***************************************************************************)
\* every adjacent pair of p is an edge of mat between two different contigs
PlainPath(mat, p) ==
    \A n \in 1 .. Len(p) - 1 :
        /\ p[n].CONTIGID # p[n + 1].CONTIGID
        /\ p[n] \in DOMAIN mat
        /\ p[n + 1] \in DOMAIN mat[p[n]]

\* C8 (SpecAssemble): a path of n nodes whose adjacent pairs are consensus
\* edges between different contigs gives n lines: for each pair, in order,
\* (distance, first node's orientation, first node's id), then the last node
\* with gap 0; and the last line of any scaffold has gap 0.
C8_LineCount ==
    pc = "done" =>
        \A x \in 1 .. Len(paths) :
            LET p  == paths[x]
                sc == scaffolds[x]
            IN  /\ Len(sc) >= 1
                /\ sc[Len(sc)].GAP = 0
                /\ PlainPath(MC, p) =>
                    /\ Len(sc) = Len(p)
                    /\ \A n \in 1 .. Len(p) - 1 :
                        /\ sc[n].GAP = MC[p[n]][p[n + 1]]
                        /\ sc[n].ORIENTATION = p[n].ORIENTATION
                        /\ sc[n].CONTIG = p[n].CONTIGID
                    /\ sc[Len(p)].ORIENTATION = p[Len(p)].ORIENTATION
                    /\ sc[Len(p)].CONTIG = p[Len(p)].CONTIGID

\* makeScaffolds has assembled a path of three nodes over three contigs
C8_Witness ==
    /\ pc = "done"
    /\ Len(paths) = 1
    /\ Len(paths[1]) = 3
    /\ PlainPath(MC, paths[1])
    /\ Len(scaffolds[1]) = 3

(***************************************************************************)
(* makeScaffolds.py: reverseComplement, merge, nOverlap                    *)
(***************************************************************************)
trans ==
    [x \in {"A", "C", "G", "T", "M", "R", "W", "S", "Y", "K", "V", "H", "D", "B", "X", "N"} |->
        CASE x = "A" -> "T" [] x = "C" -> "G" [] x = "G" -> "C" [] x = "T" -> "A"
          [] x = "M" -> "K" [] x = "R" -> "Y" [] x = "W" -> "W" [] x = "S" -> "S"
          [] x = "Y" -> "R" [] x = "K" -> "M" [] x = "V" -> "B" [] x = "H" -> "D"
          [] x = "D" -> "H" [] x = "B" -> "V" [] x = "X" -> "X" [] x = "N" -> "N"]

\* ''.join(map(lambda x: trans[x], seq[::-1]))
reverseComplement(seq) == [n \in 1 .. Len(seq) |-> trans[seq[Len(seq) + 1 - n]]]

mergeConcat(s1, s2, o) == s1 \o s2

\* s1 + s2[o:]
merge(s1, s2, o) == s1 \o SubSeq(s2, o + 1, Len(s2))

\* s1[-x:] == s2[:x]
SuffixIsPrefix(s1, s2, x) == SubSeq(s1, Len(s1) - x + 1, Len(s1)) = SubSeq(s2, 1, x)

\* the while loop of nOverlap, entered with x
RECURSIVE nOverlapFrom(_, _, _)
nOverlapFrom(s1, s2, x) ==
    IF x > 0
    THEN IF SuffixIsPrefix(s1, s2, x) THEN x ELSE nOverlapFrom(s1, s2, x - 1)
    ELSE x

\* a scan that stops at the shortest match instead
RECURSIVE nOverlapUp(_, _, _)
nOverlapUp(s1, s2, x) ==
    IF x > Min2(Len(s1), Len(s2)) THEN 0
    ELSE IF SuffixIsPrefix(s1, s2, x) THEN x ELSE nOverlapUp(s1, s2, x + 1)

nOverlapShortest(s1, s2) == nOverlapUp(s1, s2, 1)

nOverlap(s1, s2) == nOverlapFrom(s1, s2, Min2(Len(s1), Len(s2)))

(***************************************************************************)
(* makeScaffolds.py: makeScaffolds, for one cluster                        *)
(***************************************************************************)
ContigLinksEntry(g, o, c) == [GAP |-> g, ORIENTATION |-> o, CONTIGID |-> c]

\* seq1 / seq2: the sequence of a line's contig in the line's orientation
Oriented(c1) ==
    IF c1.ORIENTATION = "-" THEN reverseComplement(contigs[c1.CONTIGID])
    ELSE contigs[c1.CONTIGID]

\* 'N' * gap
Ns(gap) == [n \in 1 .. gap |-> "N"]

\* ''.join(scaffold)
RECURSIVE Join(_)
Join(pieces) == IF pieces = <<>> THEN <<>> ELSE Head(pieces) \o Join(Tail(pieces))

\* gap >= 0: the contig, then gap N's; next line
AppendWithGap ==
    /\ mpc = "loop"
    /\ i < Len(d)
    /\ LET c1 == d[i + 1]
       IN  /\ c1.GAP >= 0
           /\ scaffold' = scaffold \o <<Oriented(c1), Ns(c1.GAP)>>
    /\ i' = i + 1
    /\ UNCHANGED <<d, contigs, scaffoldSeq, mpc, linkVars, dq>>

\* the merge that consumes only line i
MergeOverlapAdvanceOne ==
    /\ mpc = "loop"
    /\ i < Len(d)
    /\ d[i + 1].GAP < 0
    /\ i + 1 < Len(d)
    /\ LET seq1 == Oriented(d[i + 1])
           seq2 == Oriented(d[i + 2])
       IN  /\ nOverlap(seq1, seq2) > 0
           /\ scaffold' = Append(scaffold, merge(seq1, seq2, nOverlap(seq1, seq2)))
    /\ i' = i + 1
    /\ UNCHANGED <<d, contigs, scaffoldSeq, mpc, linkVars, dq>>

\* gap < 0 and an actual overlap: the two contigs merged; both lines consumed
MergeOverlap ==
    /\ mpc = "loop"
    /\ i < Len(d)
    /\ d[i + 1].GAP < 0
    /\ i + 1 < Len(d)
    /\ LET seq1 == Oriented(d[i + 1])
           seq2 == Oriented(d[i + 2])
       IN  /\ nOverlap(seq1, seq2) > 0
           /\ scaffold' = Append(scaffold, merge(seq1, seq2, nOverlap(seq1, seq2)))
    /\ i' = i + 2
    /\ UNCHANGED <<d, contigs, scaffoldSeq, mpc, linkVars, dq>>

\* gap < 0 and no actual overlap: scaffold.append(seq2); next line
NoOverlap ==
    /\ mpc = "loop"
    /\ i < Len(d)
    /\ d[i + 1].GAP < 0
    /\ i + 1 < Len(d)
    /\ LET seq1 == Oriented(d[i + 1])
           seq2 == Oriented(d[i + 2])
       IN  /\ ~(nOverlap(seq1, seq2) > 0)
           /\ scaffold' = Append(scaffold, seq2)
    /\ i' = i + 1
    /\ UNCHANGED <<d, contigs, scaffoldSeq, mpc, linkVars, dq>>

\* gap < 0 on the last line: c2 = d[cluster][i + 1] raises IndexError
LastLineIndexError ==
    /\ mpc = "loop"
    /\ i < Len(d)
    /\ d[i + 1].GAP < 0
    /\ ~(i + 1 < Len(d))
    /\ mpc' = "IndexError"
    /\ UNCHANGED <<d, contigs, i, scaffold, scaffoldSeq, linkVars, dq>>

\* the loop ends: scaffolds[cluster] = ''.join(scaffold)
JoinScaffold ==
    /\ mpc = "loop"
    /\ ~(i < Len(d))
    /\ scaffoldSeq' = Join(scaffold)
    /\ mpc' = "done"
    /\ UNCHANGED <<d, contigs, i, scaffold, linkVars, dq>>

(***************************************************************************)
(* SpecMerge: the merge loop on any cluster of up to MaxLines lines        *)
(***************************************************************************)
Alphabet == {"A", "T"}

SeqsOfLen(lo, hi) == UNION { [1 .. n -> Alphabet] : n \in lo .. hi }

Gaps == {-3, 0, 2}

\* adjacent lines name different contigs: X, Y, X, ...
LineLists ==
    UNION { {ls \in [1 .. n -> [GAP : Gaps, ORIENTATION : {"+", "-"}, CONTIGID : {"X", "Y"}]] :
                \A x \in 1 .. n : ls[x].CONTIGID = (IF x % 2 = 1 THEN "X" ELSE "Y")} :
            n \in 0 .. MaxLines }

Store(sx, sy) == [c \in {"X", "Y"} |-> IF c = "X" THEN sx ELSE sy]

InitMerge ==
    /\ d \in LineLists
    /\ \E sx, sy \in SeqsOfLen(1, MaxSeqLen) : contigs = Store(sx, sy)
    /\ i = 0 /\ scaffold = <<>> /\ scaffoldSeq = <<>>
    /\ mpc = "loop"
    /\ IdleLink /\ IdleDist

NextMerge ==
    \/ AppendWithGap
    \/ MergeOverlap
    \/ NoOverlap
    \/ LastLineIndexError
    \/ JoinScaffold

SpecMerge == InitMerge /\ [][NextMerge]_vars

(***************************************************************************)
(* SpecMergeLaw: the merge loop on a two-line cluster whose first contig   *)
(* has 10 symbols and a negative gap                                       *)
(***************************************************************************)
\* sequences of 10 symbols, the last MaxTail of them free
LongSeqs == { s \in [1 .. 10 -> Alphabet] : \A n \in 1 .. (10 - MaxTail) : s[n] = "T" }

InitMergeLaw ==
    /\ \E o1, o2 \in {"+", "-"} :
        d = << ContigLinksEntry(-3, o1, "X"), ContigLinksEntry(0, o2, "Y") >>
    /\ \E sx \in LongSeqs, sy \in SeqsOfLen(1, MaxSeqLenB) : contigs = Store(sx, sy)
    /\ i = 0 /\ scaffold = <<>> /\ scaffoldSeq = <<>>
    /\ mpc = "loop"
    /\ IdleLink /\ IdleDist

NextMergeLaw ==
    \/ AppendWithGap
    \/ MergeOverlap
    \/ NoOverlap
    \/ JoinScaffold

SpecMergeLaw == InitMergeLaw /\ [][NextMergeLaw]_vars

(***************************************************************************)
(* Claims about makeScaffolds.py                                           *)
(***************************************************************************)
\* the two-line cluster (A, gap -3, +) then (B, gap 0, +), A of 10 symbols
\* whose last 3 are the first 3 of B, has been merged
C9_Case ==
    /\ mpc = "done"
    /\ d = << ContigLinksEntry(-3, "+", "X"), ContigLinksEntry(0, "+", "Y") >>
    /\ Len(contigs["X"]) = 10
    /\ Len(contigs["Y"]) >= 3
    /\ SubSeq(contigs["X"], 8, 10) = SubSeq(contigs["Y"], 1, 3)

\* the lengths x of the suffixes of s1 that are prefixes of s2
Overlaps(s1, s2) ==
    { x \in 1 .. Min2(Len(s1), Len(s2)) :
        \A n \in 1 .. x : s1[Len(s1) - x + n] = s2[n] }

\* C9 as stated (SpecMergeLaw): the merged sequence has len(A) + len(B) - 3
\* symbols.
C9_MergeLength3 ==
    C9_Case => Len(scaffoldSeq) = Len(contigs["X"]) + Len(contigs["Y"]) - 3

\* C9 as amended (SpecMergeLaw): the merged sequence has
\* len(A) + len(B) - o symbols, o >= 3 being the length of the longest suffix
\* of A that is a prefix of B; it has len(A) + len(B) - 3 symbols when no
\* suffix of A longer than 3 is a prefix of B.
C9_MergeLengthLongest ==
    C9_Case =>
        \E o \in Overlaps(contigs["X"], contigs["Y"]) :
            /\ \A x \in Overlaps(contigs["X"], contigs["Y"]) : x <= o
            /\ o >= 3
            /\ Len(scaffoldSeq) = Len(contigs["X"]) + Len(contigs["Y"]) - o
            /\ (o = 3 => Len(scaffoldSeq) = Len(contigs["X"]) + Len(contigs["Y"]) - 3)

\* such a cluster has been merged where exactly 3 symbols overlap
C9_Witness ==
    /\ C9_Case
    /\ Len(contigs["Y"]) = 4
    /\ Overlaps(contigs["X"], contigs["Y"]) = {3}
    /\ Len(scaffoldSeq) = 11

\* line i has a negative gap and no suffix of its oriented sequence is a
\* prefix of the next line's oriented sequence
C10_Case ==
    /\ mpc = "loop"
    /\ i < Len(d)
    /\ d[i + 1].GAP < 0
    /\ i + 1 < Len(d)
    /\ Overlaps(Oriented(d[i + 1]), Oriented(d[i + 2])) = {}

\* C10 (SpecMerge): in that case the step appends one piece, the first
\* oriented sequence followed by the second, and advances the line index by
\* one.
C10_ZeroOverlapFallback ==
    [][ C10_Case =>
            /\ scaffold' = Append(scaffold, Oriented(d[i + 1]) \o Oriented(d[i + 2]))
            /\ i' = i + 1 ]_vars

(***************************************************************************)
(* Claims about bestNextMatch and expandPath                               *)
(***************************************************************************)
\* ord() of the characters of the contig ids
Ord == [c \in {"1", "2", "3", "C"} |-> CASE c = "1" -> 49 [] c = "2" -> 50
                                          [] c = "3" -> 51 [] c = "C" -> 67]

\* s <= t as Python compares two strings
RECURSIVE LexLeq(_, _)
LexLeq(s, t) ==
    IF s = <<>> THEN TRUE
    ELSE IF t = <<>> THEN FALSE
    ELSE IF Head(s) # Head(t) THEN Ord[Head(s)] < Ord[Head(t)]
    ELSE LexLeq(Tail(s), Tail(t))

\* the BRIDGE step has just appended Last(path) to the path that ended in
\* path[Len(path) - 1]; seenContigs is as bestNextMatch read it
Bridged == pc = "flip" /\ Len(path) >= 2

BridgedFrom == path[Len(path) - 1]

\* the targets of BridgedFrom's edges with an unvisited contig id
Unvisited == {u \in DOMAIN MC[BridgedFrom] : u.CONTIGID \notin seenContigs}

\* those of them at the minimum distance
Tied ==
    {u \in Unvisited :
        \A x \in Unvisited : MC[BridgedFrom][u] <= MC[BridgedFrom][x]}

\* C11 as stated (SpecPaths): when several unvisited targets share the
\* minimum distance, the BRIDGE step selects the one with the
\* lexicographically smallest bare contig id.
C11_TieBreakSmallestId ==
    (Bridged /\ Cardinality(Tied) >= 2) =>
        \A u \in Tied : LexLeq(Last(path).CONTIGID, u.CONTIGID)

\* C12 (SpecPaths): the BRIDGE step, from the current end n, appends a target
\* whose contig id is unvisited and whose distance from n is at most that of
\* every other edge of n to an unvisited target, and goes back to FLIP; when no
\* edge of n has an unvisited target, and only then, the path stops growing.
C12_BridgeStep ==
    [][pc = "bridge" =>
        LET n == Last(path)
            unv == {t \in DOMAIN MC[n] : t.CONTIGID \notin seenContigs}
        IN  IF unv = {}
            THEN path' = path /\ pc' = "seed"
            ELSE /\ pc' = "flip"
                 /\ \E t \in unv :
                     /\ path' = Append(path, t)
                     /\ \A u \in unv : MC[n][t] <= MC[n][u]]_vars

\* the BRIDGE step has passed over a nearer target whose contig id was visited
C12_Witness ==
    /\ Bridged
    /\ \E v \in DOMAIN MC[BridgedFrom] :
        /\ v.CONTIGID \in seenContigs
        /\ MC[BridgedFrom][v] < MC[BridgedFrom][Last(path)]

\* C13 (SpecPaths): in every path returned by buildPaths no ContigEntry
\* occurs more than once, also when a node of the path is a single-end (ALL)
\* contig, whose opposite end is itself.
C13_PathsSimple ==
    BuildPathsReturned =>
        \A p \in 1 .. Len(paths) :
            \A x, y \in 1 .. Len(paths[p]) :
                paths[p][x] = paths[p][y] => x = y

\* the distinct bare contig ids of the consensus graph: keys and targets
GraphIds ==
    {n.CONTIGID : n \in DOMAIN MC}
        \cup UNION {{t.CONTIGID : t \in DOMAIN MC[n]} : n \in DOMAIN MC}

\* the FLIP/BRIDGE round expandPath is in: the path holds the seed and two
\* entries for every round completed
Rounds == IF pc = "flip" THEN (Len(path) + 1) \div 2 ELSE Len(path) \div 2

InExpandPath == pc \in {"flip", "bridge"}

\* what is left to do: the unseen contig ends, then the room left in the
\* path, then the return
PathRoom == 2 * Cardinality(GraphIds) + 1

Measure ==
    Cardinality(unseenContigs) * PathRoom
        + (IF InExpandPath THEN PathRoom - Len(path) ELSE 0)
        + (IF BuildPathsReturned THEN 0 ELSE 1)

\* C14 (SpecPaths): path building terminates: expandPath is never in more
\* than (number of distinct bare contig ids + 1) FLIP/BRIDGE rounds, and until
\* buildPaths returns a step is always possible and every step, for any seed
\* and any tie-break choice, strictly decreases a natural-valued measure.
C14_PathBuildingTerminates ==
    /\ [](InExpandPath => Rounds <= Cardinality(GraphIds) + 1)
    /\ [](~BuildPathsReturned => ENABLED NextPaths)
    /\ [][~BuildPathsReturned => (Measure' < Measure /\ Measure' >= 0)]_vars

\* buildPaths has returned a path that took as many rounds as the graph has
\* contig ids
C14_Witness ==
    /\ BuildPathsReturned
    /\ Cardinality(GraphIds) >= 3
    /\ \E p \in 1 .. Len(paths) : Len(paths[p]) = 2 * Cardinality(GraphIds)

\* ce2 follows ce1 by an edge of the consensus graph
IsEdge(ce1, ce2) == ce1 \in DOMAIN MC /\ ce2 \in DOMAIN MC[ce1]

\* C15 (SpecPaths): in every path returned by buildPaths each adjacent pair of
\* nodes shares a bare contig id or is an edge of the consensus graph, so that
\* makeScaffolds looks up no missing edge, and every gap it emits before the
\* closing line of a scaffold is the consensus distance of an edge of the path.
C15_PathsWellFormed ==
    /\ BuildPathsReturned =>
        \A p \in 1 .. Len(paths) :
            \A n \in 1 .. Len(paths[p]) - 1 :
                \/ paths[p][n].CONTIGID = paths[p][n + 1].CONTIGID
                \/ IsEdge(paths[p][n], paths[p][n + 1])
    /\ pc = "done" =>
        /\ Len(scaffolds) = Len(paths)
        /\ \A p \in 1 .. Len(scaffolds) :
            \A x \in 1 .. Len(scaffolds[p]) - 1 :
                \E n \in 1 .. Len(paths[p]) - 1 :
                    /\ IsEdge(paths[p][n], paths[p][n + 1])
                    /\ scaffolds[p][x].GAP = MC[paths[p][n]][paths[p][n + 1]]
                    /\ scaffolds[p][x].CONTIG = paths[p][n].CONTIGID

\* makeScaffolds has emitted a scaffold with the gaps of two BRIDGE hops
C15_Witness ==
    /\ pc = "done"
    /\ \E p \in 1 .. Len(scaffolds) :
        /\ Len(scaffolds[p]) >= 3
        /\ scaffolds[p][1].GAP # scaffolds[p][2].GAP

(***************************************************************************)
(* Claims about the index of the merge loop                                *)
(***************************************************************************)
\* the line list has a last line, whose gap is not negative
LastGapNonNegative == d # <<>> /\ Last(d).GAP >= 0

\* line i has a negative gap and a suffix of its oriented sequence is a
\* prefix of the next line's oriented sequence
C16_Case ==
    /\ mpc = "loop"
    /\ i < Len(d)
    /\ d[i + 1].GAP < 0
    /\ i + 1 < Len(d)
    /\ Overlaps(Oriented(d[i + 1]), Oriented(d[i + 2])) # {}

\* C16 (SpecMerge): on a line list whose last line has a gap >= 0 the loop
\* raises no IndexError, keeps its index within the list, can always take a
\* step and with every step advances the index or ends; and a step that
\* overlap-merges lines i and i+1 appends the merged sequence as its only
\* piece, nothing for the gap of line i+1, and resumes at line i+2.
C16_MergeLoopIndex ==
    /\ [](LastGapNonNegative =>
            /\ mpc # "IndexError"
            /\ i <= Len(d)
            /\ (mpc = "loop" => ENABLED NextMerge))
    /\ [][(LastGapNonNegative /\ mpc = "loop") => (i' > i \/ mpc' = "done")]_vars
    /\ [][C16_Case =>
            /\ i' = i + 2
            /\ \E o \in Overlaps(Oriented(d[i + 1]), Oriented(d[i + 2])) :
                /\ \A x \in Overlaps(Oriented(d[i + 1]), Oriented(d[i + 2])) : x <= o
                /\ scaffold' =
                     Append(scaffold,
                            Oriented(d[i + 1])
                              \o SubSeq(Oriented(d[i + 2]), o + 1,
                                        Len(Oriented(d[i + 2]))))]_vars

\* lines 0 and 1 of three have been overlap-merged into one piece, the
\* positive gap of line 1 left out, and the loop is at line 2
C16_Witness ==
    /\ mpc = "loop"
    /\ Len(d) = 3
    /\ LastGapNonNegative
    /\ d[1].GAP < 0
    /\ d[2].GAP > 0
    /\ i = 2
    /\ Len(scaffold) = 1

====
